---------------------------- MODULE Spec2Model ----------------------------
(***************************************************************************)
(* Model of MyEnv, the two-storage microgrid environment of                *)
(* General_Deep_Q_RL/environments/MG_two_storages_env.py.                  *)
(*                                                                         *)
(* Python floats are modelled as exact rationals held as integer           *)
(* numerators over fixed denominators, so that every product and quotient  *)
(* the code computes is exact:                                             *)
(*   normalised series values   n  means  n / NormDen                      *)
(*   energies (kWh)             e  means  e / EnergyDen                    *)
(*   battery level (slot 0)     l  means  l / LevelDen                     *)
(*   rewards (euro)             r  means  r / RewardDen                    *)
(*   hydrogen_max_power         p  means  p / PowerDen                     *)
(* Python indices are 0-based; sequences here are 1-based (At converts).   *)
(***************************************************************************)
EXTENDS Integers, Sequences, FiniteSets

VARIABLES
    dist_equinox,        \* self._dist_equinox
    pred,                \* self._pred
    hydrogen_max_power,  \* self.hydrogen_max_power, numerator over PowerDen
    data,                \* the loaded *_norm arrays of the three splits
    active,              \* the split self.production/consumption(_norm) are bound to
    counter,             \* self.counter
    hydrogen_storage,    \* self.hydrogen_storage, numerator over EnergyDen
    lastObs,             \* self._lastPonctualObservation
    overruns,            \* calls of act since reset that raised at the end of the series
    ret,                 \* outcome of the last call: value returned or exception raised
    rng,                 \* self._rng, held as the seed it was created from
    run                  \* history: the calls of the episode on record and its replay

vars == <<dist_equinox, pred, hydrogen_max_power, data, active, counter,
          hydrogen_storage, lastObs, overruns, ret, rng, run>>

-----------------------------------------------------------------------------
(* Program constants *)

inc_sizing == 1
consumption_scale_num == 21       \* consumption_*_norm * 2.1
consumption_scale_den == 10
production_scale == 12            \* production_*_norm * 12000. / 1000. * inc_sizing
battery_size == 15
battery_eta_num == 9              \* battery_eta = 0.9
battery_eta_den == 10
hydrogen_power_num == 11          \* hydrogen_max_power = 1.1 * inc_sizing
PowerDen == 10
hydrogen_eta_num == 13            \* hydrogen_eta = .65 = 13/20
hydrogen_eta_den == 20
hydrogen_price_den == 10          \* reward = diff_hydrogen * 0.1
loss_load == 2                    \* penalty of 2 euro/kWh
history_len == 12                 \* rows of the (12,2) history returned by reset
window_short == 24                \* production forecast over 24 hours
window_long == 48                 \* production forecast over 48 hours
days_per_year == 365
hours_per_day == 24               \* counter/24 in the distance to equinox
nActions == 3
main_seed == 123456

(* Bounds of the model: the length of every loaded series (365*24 in the   *)
(* code), and how often act may be called again, within one episode, once  *)
(* it has run off the end of the series.                                   *)
SeriesLen == 10
MaxOverruns == 2
MaxLog == 4
LongLen == 52

-----------------------------------------------------------------------------
(* Fixed-point denominators *)

NormDen == consumption_scale_num
EnergyDen == (NormDen \div 3) * consumption_scale_den * hydrogen_eta_num * hydrogen_eta_den
FineDen == battery_eta_den * EnergyDen
LevelDen == battery_size * FineDen
RewardDen == FineDen
SeasonDen == hours_per_day * days_per_year

Abs(x) == IF x < 0 THEN -x ELSE x
Min(a, b) == IF a < b THEN a ELSE b

\* s[i] with the Python (0-based) index i
At(s, i) == s[i + 1]

-----------------------------------------------------------------------------
(* The loaded data: three splits, each a normalised consumption and a       *)
(* normalised production series with values in [0,1].                      *)

Splits == {"train", "valid", "test"}

\* A winter-like profile: full consumption, no production (one light hour).
HeavyProfile ==
    [cons |-> [i \in 1..SeriesLen |-> IF i = 8 THEN 3 ELSE NormDen],
     prod |-> [i \in 1..SeriesLen |-> 0]]

\* A summer-like profile: no consumption, full production every other hour.
SunnyProfile ==
    [cons |-> [i \in 1..SeriesLen |-> 0],
     prod |-> [i \in 1..SeriesLen |-> IF i % 2 = 0 THEN NormDen ELSE 0]]

\* A mixed profile: alternating heavy and light load, some production.
MixedProfile ==
    [cons |-> [i \in 1..SeriesLen |-> IF i % 2 = 1 THEN NormDen ELSE 3],
     prod |-> [i \in 1..SeriesLen |-> IF i % 3 = 0 THEN 3 ELSE 0]]

Datasets ==
    { [train |-> HeavyProfile, valid |-> SunnyProfile, test |-> MixedProfile],
      [train |-> SunnyProfile, valid |-> MixedProfile, test |-> HeavyProfile],
      [train |-> MixedProfile, valid |-> HeavyProfile, test |-> SunnyProfile] }

\* self.consumption_<split>_norm, self.production_<split>_norm
consumption_norm_of(d, split) == d[split].cons
production_norm_of(d, split) == d[split].prod

\* self.consumption_<split> = consumption_<split>_norm * 2.1, in energy units
consumption_of(d, split) ==
    [i \in 1..Len(d[split].cons) |->
        (d[split].cons[i] * consumption_scale_num * EnergyDen)
            \div (NormDen * consumption_scale_den)]

\* self.production_<split> = production_<split>_norm * 12000./1000.*inc_sizing
production_of(d, split) ==
    [i \in 1..Len(d[split].prod) |->
        (d[split].prod[i] * production_scale * inc_sizing * EnergyDen) \div NormDen]

-----------------------------------------------------------------------------
(* Observations.  A Python observation is a list of slots; every slot is   *)
(* held here as a sequence of rows and every row as a sequence of numbers, *)
(* so a float x is <<<<x>>>> and a pair [a, b] is <<<<a, b>>>>.            *)

Scalar(x) == << <<x>> >>
Pair(a, b) == << <<a, b>> >>
ZeroHistory == [i \in 1..history_len |-> <<0, 0>>]

\* The buffer level held in slot 0 of an observation
LevelOf(obs) == obs[1][1][1]

\* self._lastPonctualObservation as __init__ leaves it; <<>> stands for the
\* attribute never being assigned (no branch taken).
InitObservation(de, pr) ==
    IF de = 1 /\ pr = 1 THEN <<Scalar(0), Pair(0, 0), Scalar(0), Pair(0, 0)>>
    ELSE IF de = 1 /\ pr = 0 THEN <<Scalar(0), Pair(0, 0), Scalar(0)>>
    ELSE IF de = 0 /\ pr = 0 THEN <<Scalar(0), Pair(0, 0)>>
    ELSE <<>>

\* self._inputDimensions as __init__ leaves it
InputDimensions(de, pr) ==
    IF de = 1 /\ pr = 1 THEN <<<<1>>, <<12, 2>>, <<1>>, <<1, 2>>>>
    ELSE IF de = 1 /\ pr = 0 THEN <<<<1>>, <<12, 2>>, <<1>>>>
    ELSE IF de = 0 /\ pr = 0 THEN <<<<1>>, <<12, 2>>>>
    ELSE <<>>

\* Variant of ResetObservation: the battery is not refilled.
ResetObservation_Keep(de, pr, old) == old

\* self._lastPonctualObservation as reset leaves it (old value if no branch)
ResetObservation(de, pr, old) ==
    IF de = 1 /\ pr = 1 THEN <<Scalar(LevelDen), Pair(0, 0), Scalar(0), Pair(0, 0)>>
    ELSE IF de = 1 /\ pr = 0 THEN <<Scalar(LevelDen), Pair(0, 0), Scalar(0)>>
    ELSE IF de = 0 /\ pr = 0 THEN <<Scalar(LevelDen), Pair(0, 0)>>
    ELSE old

\* Variant of ResetReturn: the refilled observation itself is returned.
ResetReturn_Live(de, pr) ==
    IF de = 1 /\ pr = 1 THEN <<Scalar(LevelDen), ZeroHistory, Scalar(0), Pair(0, 0)>>
    ELSE IF de = 1 /\ pr = 0 THEN <<Scalar(LevelDen), ZeroHistory, Scalar(0)>>
    ELSE <<Scalar(LevelDen), ZeroHistory>>

\* The list reset returns
ResetReturn(de, pr) ==
    IF de = 1 /\ pr = 1 THEN <<Scalar(0), ZeroHistory, Scalar(0), Pair(0, 0)>>
    ELSE IF de = 1 /\ pr = 0 THEN <<Scalar(0), ZeroHistory, Scalar(0)>>
    ELSE <<Scalar(0), ZeroHistory>>

\* The split reset binds the active series to
SplitOfMode(mode) ==
    IF mode = -1 THEN "train"
    ELSE IF mode = 0 THEN "valid"
    ELSE "test"

-----------------------------------------------------------------------------
(* Outcome of a call *)

Outcome(op, arg, status, reward, obs) ==
    [op |-> op, arg |-> arg, status |-> status, reward |-> reward, obs |-> obs]

-----------------------------------------------------------------------------
(* One time step: the pure parts of act *)

\* Variant of HydrogenLocals: the last statement reads `else`, not `if (action==2)`.
HydrogenLocals_ElseCharge(action, p) ==
    IF action = 0
    THEN [bound |-> TRUE,
          avail |-> -((p * hydrogen_eta_num * EnergyDen) \div (PowerDen * hydrogen_eta_den)),
          diff  |-> -((p * EnergyDen) \div PowerDen)]
    ELSE IF action = 1
    THEN [bound |-> TRUE, avail |-> 0, diff |-> 0]
    ELSE [bound |-> TRUE,
          avail |-> (p * hydrogen_eta_den * EnergyDen) \div (PowerDen * hydrogen_eta_num),
          diff  |-> (p * EnergyDen) \div PowerDen]

\* Variant of HydrogenLocals: the power is the constant 1.1, not the attribute.
HydrogenLocals_FixedPower(action, p) ==
    IF action \notin {0, 1, 2}
    THEN [bound |-> FALSE, avail |-> 0, diff |-> 0]
    ELSE [bound |-> TRUE,
          avail |-> IF action = 0
                    THEN -((hydrogen_power_num * hydrogen_eta_num * EnergyDen)
                             \div (PowerDen * hydrogen_eta_den))
                    ELSE IF action = 2
                    THEN (hydrogen_power_num * hydrogen_eta_den * EnergyDen)
                             \div (PowerDen * hydrogen_eta_num)
                    ELSE 0,
          diff  |-> (action - 1) * ((hydrogen_power_num * EnergyDen) \div PowerDen)]

\* Variant of HydrogenLocals: the branches of actions 0 and 2 are exchanged.
HydrogenLocals_Swapped(action, p) ==
    IF action = 2
    THEN [bound |-> TRUE,
          avail |-> -((p * hydrogen_eta_num * EnergyDen) \div (PowerDen * hydrogen_eta_den)),
          diff  |-> -((p * EnergyDen) \div PowerDen)]
    ELSE IF action = 1
    THEN [bound |-> TRUE, avail |-> 0, diff |-> 0]
    ELSE IF action = 0
    THEN [bound |-> TRUE,
          avail |-> (p * hydrogen_eta_den * EnergyDen) \div (PowerDen * hydrogen_eta_num),
          diff  |-> (p * EnergyDen) \div PowerDen]
    ELSE [bound |-> FALSE, avail |-> 0, diff |-> 0]

\* The locals bound by the three `if (action==k)` statements: the energy the
\* hydrogen store asks of the rest of the system and the change of the reserve
\* (both in energy units); bound is FALSE when no statement ran.
HydrogenLocals(action, p) ==
    LET none == [bound |-> FALSE, avail |-> 0, diff |-> 0]
        a0 == IF action = 0
              THEN [bound |-> TRUE,
                    avail |-> -((p * hydrogen_eta_num * EnergyDen)
                                  \div (PowerDen * hydrogen_eta_den)),
                    diff  |-> -((p * EnergyDen) \div PowerDen)]
              ELSE none
        a1 == IF action = 1
              THEN [bound |-> TRUE, avail |-> 0, diff |-> 0]
              ELSE a0
        a2 == IF action = 2
              THEN [bound |-> TRUE,
                    avail |-> (p * hydrogen_eta_den * EnergyDen)
                                  \div (PowerDen * hydrogen_eta_num),
                    diff  |-> (p * EnergyDen) \div PowerDen]
              ELSE a1
    IN a2

\* Variant of HydrogenReward: the 0.1 euro/kWh factor is left out.
HydrogenReward_NoPrice(diff) == diff * (RewardDen \div EnergyDen)

\* reward = diff_hydrogen * 0.1, in reward units
HydrogenReward(diff) == (diff * (RewardDen \div EnergyDen)) \div hydrogen_price_den

\* level * battery_size, in fine energy units
BatteryEnergy(level) == (level * battery_size) \div (LevelDen \div FineDen)

\* an energy in fine energy units
Fine(e) == e * (FineDen \div EnergyDen)

\* Variant of BatteryStep: the charged level is not capped at 1.
BatteryStep_NoCap(level, needed) ==
    IF needed > 0
    THEN IF (level * battery_size) \div (LevelDen \div FineDen)
              > needed * (FineDen \div EnergyDen)
         THEN [level   |-> level - needed * (LevelDen \div (EnergyDen * battery_size)),
               penalty |-> 0]
         ELSE [level   |-> 0,
               penalty |-> (needed * (FineDen \div EnergyDen)
                            - (level * battery_size) \div (LevelDen \div FineDen))
                               * loss_load * (RewardDen \div FineDen)]
    ELSE IF needed < 0
    THEN [level   |-> level + (-needed) * battery_eta_num
                                * (LevelDen \div (EnergyDen * battery_size
                                                     * battery_eta_den)),
          penalty |-> 0]
    ELSE [level |-> level, penalty |-> 0]

\* Variant of BatteryStep: the penalty is charged on the whole need, what is
\* left in the battery is not deducted.
BatteryStep_FullPenalty(level, needed) ==
    IF needed > 0
    THEN IF (level * battery_size) \div (LevelDen \div FineDen)
              > needed * (FineDen \div EnergyDen)
         THEN [level   |-> level - needed * (LevelDen \div (EnergyDen * battery_size)),
               penalty |-> 0]
         ELSE [level   |-> 0,
               penalty |-> needed * (FineDen \div EnergyDen)
                               * loss_load * (RewardDen \div FineDen)]
    ELSE IF needed < 0
    THEN [level   |-> Min(LevelDen,
                          level + (-needed) * battery_eta_num
                                    * (LevelDen \div (EnergyDen * battery_size
                                                         * battery_eta_den))),
          penalty |-> 0]
    ELSE [level |-> level, penalty |-> 0]

\* Variant of BatteryStep: a surplus is stored without the battery_eta loss.
BatteryStep_NoEta(level, needed) ==
    IF needed > 0
    THEN IF (level * battery_size) \div (LevelDen \div FineDen)
              > needed * (FineDen \div EnergyDen)
         THEN [level   |-> level - needed * (LevelDen \div (EnergyDen * battery_size)),
               penalty |-> 0]
         ELSE [level   |-> 0,
               penalty |-> (needed * (FineDen \div EnergyDen)
                            - (level * battery_size) \div (LevelDen \div FineDen))
                               * loss_load * (RewardDen \div FineDen)]
    ELSE IF needed < 0
    THEN [level   |-> Min(LevelDen,
                          level + (-needed) * (LevelDen \div (EnergyDen * battery_size))),
          penalty |-> 0]
    ELSE [level |-> level, penalty |-> 0]

\* Variant of BatteryStep: the penalty branch does not empty the battery.
BatteryStep_NoEmpty(level, needed) ==
    IF needed > 0
    THEN IF (level * battery_size) \div (LevelDen \div FineDen)
              > needed * (FineDen \div EnergyDen)
         THEN [level   |-> level - needed * (LevelDen \div (EnergyDen * battery_size)),
               penalty |-> 0]
         ELSE [level   |-> level,
               penalty |-> (needed * (FineDen \div EnergyDen)
                            - (level * battery_size) \div (LevelDen \div FineDen))
                               * loss_load * (RewardDen \div FineDen)]
    ELSE IF needed < 0
    THEN [level   |-> Min(LevelDen,
                          level + (-needed) * battery_eta_num
                                    * (LevelDen \div (EnergyDen * battery_size
                                                         * battery_eta_den))),
          penalty |-> 0]
    ELSE [level |-> level, penalty |-> 0]

\* The battery branch of act: the new level of slot 0 and the penalty
\* subtracted from the reward, for a level and Energy_needed_from_battery.
BatteryStep(level, needed) ==
    IF needed > 0
    THEN IF BatteryEnergy(level) > Fine(needed)
         THEN [level   |-> level - needed * (LevelDen \div (EnergyDen * battery_size)),
               penalty |-> 0]
         ELSE [level   |-> 0,
               penalty |-> (Fine(needed) - BatteryEnergy(level)) * loss_load
                               * (RewardDen \div FineDen)]
    ELSE IF needed < 0
    THEN [level   |-> Min(LevelDen,
                          level + (-needed) * battery_eta_num
                                  * (LevelDen \div (EnergyDen * battery_size
                                                       * battery_eta_den))),
          penalty |-> 0]
    ELSE [level |-> level, penalty |-> 0]

\* sum(s[lo:hi]) with Python's slice truncation
RECURSIVE SliceSum(_, _, _)
SliceSum(s, lo, hi) ==
    IF lo >= hi \/ lo >= Len(s) THEN 0
    ELSE At(s, lo) + SliceSum(s, lo + 1, hi)

\* abs(counter/24 - 365./2) / (365./2), numerator over SeasonDen; counter/24
\* is taken as true division (under Python 2 it is integer division).
DistEquinox(c) == Abs(2 * c - hours_per_day * days_per_year)

\* Variant of FillObservation: the series are read at counter - 1, the index
\* the demand of the step was read at.
FillObservation_Stale(obs, c, de, pr, cons_norm, prod_norm) ==
    LET o1 == [obs EXCEPT ![2] = Pair(At(cons_norm, c - 1), At(prod_norm, c - 1))]
        o2 == IF de = 1 THEN [o1 EXCEPT ![3] = Scalar(DistEquinox(c - 1))] ELSE o1
        o3 == IF pr = 1
              THEN [o2 EXCEPT ![2 + de + 1] =
                        Pair(SliceSum(prod_norm, c - 1, c - 1 + window_short),
                             SliceSum(prod_norm, c - 1, c - 1 + window_long))]
              ELSE o2
    IN o3

\* Variant of FillObservation: the factor self.rng.uniform(0.75,1.25) that
\* lines 206-207 keep in a comment is applied to the forecasts (a factor of
\* 3/4, 4/4 or 5/4 picked by the seed; forecasts in quarters).
FillObservation_Noisy(obs, c, de, pr, cons_norm, prod_norm) ==
    LET o1 == [obs EXCEPT ![2] = Pair(At(cons_norm, c), At(prod_norm, c))]
        o2 == IF de = 1 THEN [o1 EXCEPT ![3] = Scalar(DistEquinox(c))] ELSE o1
        o3 == IF pr = 1
              THEN [o2 EXCEPT ![2 + de + 1] =
                        Pair(SliceSum(prod_norm, c, c + window_short) * (3 + (rng % 3)),
                             SliceSum(prod_norm, c, c + window_long) * (3 + (rng % 3)))]
              ELSE o2
    IN o3

\* The observation after the slot assignments that follow the battery
\* branch, for an observation whose slot 0 is already updated.
FillObservation(obs, c, de, pr, cons_norm, prod_norm) ==
    LET o1 == [obs EXCEPT ![2] = Pair(At(cons_norm, c), At(prod_norm, c))]
        o2 == IF de = 1 THEN [o1 EXCEPT ![3] = Scalar(DistEquinox(c))] ELSE o1
        o3 == IF pr = 1
              THEN [o2 EXCEPT ![2 + de + 1] =
                        Pair(SliceSum(prod_norm, c, c + window_short),
                             SliceSum(prod_norm, c, c + window_long))]
              ELSE o2
    IN o3

-----------------------------------------------------------------------------
(* State after construction *)

NoObservation == <<>>

\* The history kept beside the environment: the calls of the current episode
\* (from its reset on) with their outcomes, the seed of the environment that
\* answered them, whether that environment had been used before the reset,
\* and how far a second environment has repeated the calls.  With phase
\* "off" no history is kept.
RunOf(phase, log, pos, used, seed) ==
    [phase |-> phase, log |-> log, pos |-> pos, used |-> used, seed |-> seed]

NoRun == RunOf("off", <<>>, 0, FALSE, 0)
IdleRun == RunOf("free", <<>>, 0, FALSE, 0)

\* The history after a call with outcome ret'.  A reset opens a record; calls
\* are appended while the record has room, and a call beyond that drops the
\* record.  While a record is repeated, only its next call can be made.
Track ==
    IF run.phase = "off" THEN UNCHANGED run
    ELSE IF run.phase = "replay"
    THEN /\ run.pos < Len(run.log)
         /\ ret'.op = run.log[run.pos + 1].op
         /\ ret'.arg = run.log[run.pos + 1].arg
         /\ run' = [run EXCEPT !.pos = run.pos + 1]
    ELSE IF ret'.op = "reset"
    THEN run' = RunOf("record", <<ret'>>, 0, ret.op # "init", rng)
    ELSE IF run.phase = "record" /\ Len(run.log) < MaxLog
    THEN run' = [run EXCEPT !.log = Append(run.log, ret')]
    ELSE run' = IdleRun

InitWith(de, pr, p, loaded, seeds) ==
    /\ dist_equinox = de
    /\ pred = pr
    /\ hydrogen_max_power = p
    /\ data \in loaded
    /\ active = "none"          \* production, consumption, ... not yet assigned
    /\ counter = 0              \* not yet assigned
    /\ hydrogen_storage = 0     \* not yet assigned
    /\ lastObs = InitObservation(de, pr)
    /\ overruns = 0
    /\ ret = Outcome("init", 0, "ok", 0, NoObservation)
    /\ rng \in seeds

Init ==
    /\ InitWith(0, 0, hydrogen_power_num * inc_sizing, Datasets, {main_seed})
    /\ run = NoRun

-----------------------------------------------------------------------------
(* Operations *)

Modes == {-1, 0, 1, 2}
InputActions == {0, 1, 2, 5}

\* Variant of Reset: the counter restarts at 0.
Reset_CounterZero(mode) ==
    /\ lastObs' = ResetObservation(dist_equinox, pred, lastObs)
    /\ counter' = 0
    /\ hydrogen_storage' = 0
    /\ active' = SplitOfMode(mode)
    /\ overruns' = 0
    /\ ret' = Outcome("reset", mode, "ok", 0, ResetReturn(dist_equinox, pred))
    /\ UNCHANGED <<rng, dist_equinox, pred, hydrogen_max_power, data>>
    /\ Track

\* Variant of Reset: the hydrogen reserve is not emptied.
Reset_KeepStorage(mode) ==
    /\ lastObs' = ResetObservation(dist_equinox, pred, lastObs)
    /\ counter' = 1
    /\ UNCHANGED hydrogen_storage
    /\ active' = SplitOfMode(mode)
    /\ overruns' = 0
    /\ ret' = Outcome("reset", mode, "ok", 0, ResetReturn(dist_equinox, pred))
    /\ UNCHANGED <<rng, dist_equinox, pred, hydrogen_max_power, data>>
    /\ Track

Reset(mode) ==
    /\ lastObs' = ResetObservation(dist_equinox, pred, lastObs)
    /\ counter' = 1
    /\ hydrogen_storage' = 0
    /\ active' = SplitOfMode(mode)
    /\ overruns' = 0
    /\ ret' = Outcome("reset", mode, "ok", 0, ResetReturn(dist_equinox, pred))
    /\ UNCHANGED <<rng, dist_equinox, pred, hydrogen_max_power, data>>
    /\ Track

Raise(op, arg, exception) ==
    ret' = Outcome(op, arg, exception, 0, NoObservation)

Act(action) ==
    /\ UNCHANGED <<rng, dist_equinox, pred, hydrogen_max_power, data, active>>
    /\ IF active = "none"
       THEN \* line 155: self.consumption is not an attribute yet
            /\ Raise("act", action, "AttributeError")
            /\ UNCHANGED <<counter, hydrogen_storage, lastObs, overruns>>
       ELSE IF counter - 1 >= Len(consumption_of(data, active))
       THEN \* line 155: index out of bounds
            /\ Raise("act", action, "IndexError")
            /\ UNCHANGED <<counter, hydrogen_storage, lastObs, overruns>>
       ELSE
         LET true_demand == At(consumption_of(data, active), counter - 1)
                            - At(production_of(data, active), counter - 1)
             h == HydrogenLocals(action, hydrogen_max_power)
         IN IF ~h.bound
            THEN \* line 170: diff_hydrogen referenced before assignment
                 /\ Raise("act", action, "UnboundLocalError")
                 /\ UNCHANGED <<counter, hydrogen_storage, lastObs, overruns>>
            ELSE IF Len(lastObs) = 0
            THEN \* lines 177/186/198: self._lastPonctualObservation is not an
                 \* attribute, after hydrogen_storage was updated at line 171
                 /\ overruns < MaxOverruns         \* bound of the model
                 /\ overruns' = overruns + 1
                 /\ hydrogen_storage' = hydrogen_storage + h.diff
                 /\ Raise("act", action, "AttributeError")
                 /\ UNCHANGED <<counter, lastObs>>
            ELSE
              LET needed == true_demand + h.avail
                  b == BatteryStep(LevelOf(lastObs), needed)
                  reward == HydrogenReward(h.diff) - b.penalty
                  obs0 == [lastObs EXCEPT ![1] = Scalar(b.level)]
              IN /\ hydrogen_storage' = hydrogen_storage + h.diff
                 /\ IF counter >= Len(consumption_norm_of(data, active))
                    THEN \* line 198: index out of bounds, after the updates above
                         /\ overruns < MaxOverruns      \* bound of the model
                         /\ overruns' = overruns + 1
                         /\ lastObs' = obs0
                         /\ Raise("act", action, "IndexError")
                         /\ UNCHANGED counter
                    ELSE /\ lastObs' = FillObservation(obs0, counter, dist_equinox, pred,
                                           consumption_norm_of(data, active),
                                           production_norm_of(data, active))
                         /\ counter' = counter + 1
                         /\ ret' = Outcome("act", action, "ok", reward, NoObservation)
                         /\ UNCHANGED overruns
    /\ Track

\* Variant of Observe: the consumption/production slot is cleared on reading.
Observe_Clearing ==
    /\ ret' = Outcome("observe", 0, "ok", 0, lastObs)
    /\ lastObs' = [lastObs EXCEPT ![2] = Pair(0, 0)]
    /\ UNCHANGED <<rng, dist_equinox, pred, hydrogen_max_power, data, active, counter,
                   hydrogen_storage, overruns>>
    /\ Track

Observe ==
    /\ IF Len(lastObs) = 0
       THEN Raise("observe", 0, "AttributeError")    \* attribute never assigned
       ELSE ret' = Outcome("observe", 0, "ok", 0, lastObs)
    /\ UNCHANGED <<rng, dist_equinox, pred, hydrogen_max_power, data, active, counter,
                   hydrogen_storage, lastObs, overruns>>
    /\ Track

Next ==
    \/ \E mode \in Modes : Reset(mode)
    \/ \E action \in InputActions : Act(action)
    \/ Observe

Spec == Init /\ [][Next]_vars

-----------------------------------------------------------------------------
(* The accessors, and a caller that writes into the list observe returned *)

\* Variant of ObserveSharing: copy.copy, the nested lists stay shared.
ObserveSharing_Shallow(obs) ==
    [outer |-> FALSE, nested |-> {i \in 1..Len(obs) : Len(obs[i][1]) > 1}]

\* What the list returned by observe shares with self._lastPonctualObservation:
\* the list object itself (outer) and the slots whose nested list is the same
\* object.  copy.deepcopy shares nothing.
ObserveSharing(obs) ==
    [outer |-> FALSE, nested |-> {}]

\* inputDimensions(): the shapes, one row per slot
InputDimensionsCall ==
    /\ IF Len(InputDimensions(dist_equinox, pred)) = 0
       THEN Raise("inputDimensions", 0, "AttributeError")  \* never assigned
       ELSE ret' = Outcome("inputDimensions", 0, "ok", 0,
                           [i \in 1..Len(InputDimensions(dist_equinox, pred)) |->
                               <<InputDimensions(dist_equinox, pred)[i]>>])
    /\ UNCHANGED <<run, rng, dist_equinox, pred, hydrogen_max_power, data, active, counter,
                   hydrogen_storage, lastObs, overruns>>

\* nActions(): the number returned is held in the reward field of the outcome
NActionsCall ==
    /\ ret' = Outcome("nActions", 0, "ok", nActions, NoObservation)
    /\ UNCHANGED <<run, rng, dist_equinox, pred, hydrogen_max_power, data, active, counter,
                   hydrogen_storage, lastObs, overruns>>

\* What a caller writes into a list it was handed
CallerValues == {1}

\* The caller assigns v to entry k of slot i of the list the last observe()
\* returned (obs[i] = v for a float slot, obs[i][k-1] = v for a list slot);
\* the environment's own list changes with it where the two are shared.
CallerMutate(i, k, v) ==
    /\ ret.op \in {"observe", "mutate"}
    /\ i \in 1..Len(ret.obs)
    /\ k \in 1..Len(ret.obs[i][1])
    /\ ret' = [ret EXCEPT !.op = "mutate", !.obs[i][1][k] = v]
    /\ lastObs' = IF \/ ObserveSharing(lastObs).outer
                     \/ (i \in ObserveSharing(lastObs).nested)
                  THEN [lastObs EXCEPT ![i][1][k] = v]
                  ELSE lastObs
    /\ UNCHANGED <<run, rng, dist_equinox, pred, hydrogen_max_power, data, active, counter,
                   hydrogen_storage, overruns>>

NextCalls ==
    \/ \E mode \in Modes : Reset(mode)
    \/ \E action \in InputActions : Act(action)
    \/ Observe
    \/ InputDimensionsCall
    \/ NActionsCall
    \/ \E i \in 1..4, k \in 1..2, v \in CallerValues : CallerMutate(i, k, v)

SpecCalls == Init /\ [][NextCalls]_vars

-----------------------------------------------------------------------------
(* The environment under each setting of the two flags of lines 34-35,     *)
(* with a training series long enough for whole forecast windows           *)

\* A long surplus profile: production always covers the load and the
\* charging of the hydrogen store.
LongProfile ==
    [cons |-> [i \in 1..LongLen |-> IF i % 4 = 0 THEN 3 ELSE 0],
     prod |-> [i \in 1..LongLen |-> 7 * (1 + (i % 3))]]

LongData == [train |-> LongProfile, valid |-> SunnyProfile, test |-> MixedProfile]

InitConfigs ==
    /\ \E de \in {0, 1}, pr \in {0, 1} :
          InitWith(de, pr, hydrogen_power_num * inc_sizing, {LongData}, {main_seed})
    /\ run = NoRun

NextConfigs ==
    \/ \E mode \in Modes : Reset(mode)
    \/ \E action \in InputActions : Act(action)
    \/ Observe
    \/ InputDimensionsCall

SpecConfigs == InitConfigs /\ [][NextConfigs]_vars

-----------------------------------------------------------------------------
(* Two runs of one episode: the calls from a reset on are put on record    *)
(* with their outcomes, then a second environment is constructed on the    *)
(* same data and given the same calls.                                     *)

\* The seeds an environment is constructed with
Seeds == {main_seed, 7}

RunData == [train |-> HeavyProfile, valid |-> SunnyProfile, test |-> MixedProfile]

\* Environments with both flags off (the code as written) and both on
InitRuns ==
    /\ \E fl \in {0, 1} :
          InitWith(fl, fl, hydrogen_power_num * inc_sizing, {RunData}, Seeds)
    /\ run = IdleRun

\* MyEnv(rng) called again, on the same files, while an episode is on record:
\* the new environment takes the place of the old one, which is dropped.
Construct(seed) ==
    /\ run.phase = "record"
    /\ active' = "none"
    /\ counter' = 0
    /\ hydrogen_storage' = 0
    /\ lastObs' = InitObservation(dist_equinox, pred)
    /\ overruns' = 0
    /\ ret' = Outcome("init", 0, "ok", 0, NoObservation)
    /\ rng' = seed
    /\ run' = [run EXCEPT !.phase = "replay"]
    /\ UNCHANGED <<dist_equinox, pred, hydrogen_max_power, data>>

NextRuns ==
    \/ \E mode \in Modes : Reset(mode)
    \/ \E action \in InputActions : Act(action)
    \/ Observe
    \/ \E seed \in Seeds : Construct(seed)

SpecRuns == InitRuns /\ [][NextRuns]_vars

 (hydrogen_max_power = 0)
InitNoHydrogen ==
    /\ InitWith(0, 0, 0, Datasets, {main_seed})
    /\ run = NoRun
SpecNoHydrogen == InitNoHydrogen /\ [][Next]_vars

-----------------------------------------------------------------------------
(* Properties *)

\* What the last call was
Stepped(r) == r.op = "act" /\ r.status = "ok"
FailedStep(r) == r.op = "act" /\ r.status # "ok"

\* C1: in every state reached by reset followed by any calls of act, the
\* short-term buffer level (slot 0 of the observation) lies in [0, 1].
C1_LevelInRange ==
    active # "none" => (0 <= LevelOf(lastObs) /\ LevelOf(lastObs) <= LevelDen)

\* C1 witness: a step has emptied the buffer down to exactly 0 and charged a
\* penalty for the demand it could not meet.
C1_Witness ==
    /\ Stepped(ret)
    /\ ret.arg = 2
    /\ ret.reward < 0
    /\ LevelOf(lastObs) = 0

\* C2: a call of act that fails leaves the buffer level, the long-term level
\* and the cursor exactly as they were before the call.
C2_FailedStepChangesNothing ==
    [][FailedStep(ret')
         => /\ LevelOf(lastObs') = LevelOf(lastObs)
            /\ hydrogen_storage' = hydrogen_storage
            /\ counter' = counter]_vars

\* C3: act called with an action outside {0,1,2} ends with an error instead of
\* a reward and leaves buffer level, long-term level, cursor and the last
\* observation unchanged.
C3_InvalidActionRaises ==
    [][(ret'.op = "act" /\ ret'.arg \notin {0, 1, 2})
         => /\ ret'.status # "ok"
            /\ lastObs' = lastObs
            /\ hydrogen_storage' = hydrogen_storage
            /\ counter' = counter
            /\ active' = active]_vars

\* C3 witness: act(5) has raised in the middle of an episode.
C3_Witness ==
    /\ ret.op = "act"
    /\ ret.arg = 5
    /\ ret.status = "UnboundLocalError"
    /\ counter > 2

\* C4: the cursor is 1 right after every reset, every successful step adds
\* exactly 1 to it, and nothing else changes it.
C4_CursorAdvance ==
    [][/\ ret'.op = "reset" => counter' = 1
       /\ Stepped(ret') => counter' = counter + 1
       /\ (ret'.op # "reset" /\ ~Stepped(ret')) => counter' = counter]_vars

\* C4 witness: three successful steps after a reset, the cursor at 4.
C4_Witness ==
    /\ Stepped(ret)
    /\ counter = 4

\* C5: reset(mode) can be called in every reachable state, never fails, and
\* leaves buffer level 1.0, long-term level 0, cursor 1 and the active series
\* bound to train for mode -1, validation for mode 0 and test otherwise.
C5_ResetPostcondition ==
    /\ \A mode \in Modes : ENABLED Reset(mode)
    /\ ret.op = "reset"
         => /\ ret.status = "ok"
            /\ LevelOf(lastObs) = LevelDen
            /\ hydrogen_storage = 0
            /\ counter = 1
            /\ ret.arg = -1 => active = "train"
            /\ ret.arg = 0 => active = "valid"
            /\ ret.arg \notin {-1, 0} => active = "test"

\* C5 witness: the state right after reset(2), bound to the test series.
C5_Witness ==
    /\ ret.op = "reset"
    /\ ret.arg = 2
    /\ active = "test"
    /\ counter = 1

\* The quantities of one step as the specification states them, for an action
\* in {0,1,2} taken in the current state: the change of the long-term level
\* and the energy the long-term store asks for (energy units), the net need
\* of the short-term buffer and the energy it holds (fine energy units).
Max(a, b) == IF a > b THEN a ELSE b

StatedLongTermDelta(a) ==
    ((a - 1) * hydrogen_max_power * EnergyDen) \div PowerDen

StatedEnergyFromLongTerm(a) ==
    IF a = 0
    THEN -((hydrogen_max_power * hydrogen_eta_num * EnergyDen)
             \div (PowerDen * hydrogen_eta_den))
    ELSE IF a = 2
    THEN (hydrogen_max_power * hydrogen_eta_den * EnergyDen)
             \div (PowerDen * hydrogen_eta_num)
    ELSE 0

StatedNetNeed(a) ==
    (FineDen \div EnergyDen)
        * (At(consumption_of(data, active), counter - 1)
           - At(production_of(data, active), counter - 1)
           + StatedEnergyFromLongTerm(a))

StatedBufferEnergy == (LevelOf(lastObs) * battery_size) \div (LevelDen \div FineDen)

StatedTariffReward(a) ==
    (StatedLongTermDelta(a) * (RewardDen \div EnergyDen)) \div hydrogen_price_den

StatedPenalty(a) ==
    loss_load * Max(0, StatedNetNeed(a) - StatedBufferEnergy) * (RewardDen \div FineDen)

C7_ExactDrain ==
    [][(/\ Stepped(ret')
        /\ ret'.arg \in {0, 1, 2}
        /\ StatedNetNeed(ret'.arg) > 0
        /\ StatedNetNeed(ret'.arg) = StatedBufferEnergy)
         => /\ LevelOf(lastObs') = 0
            /\ ret'.reward = StatedTariffReward(ret'.arg)]_vars

\* C7 witness: a holding step (action 1) met a positive demand, ended with an
\* empty buffer and returned reward 0: the buffer held exactly the demand
\* (more would leave a positive level, less would cost a penalty).
C7_Witness ==
    /\ Stepped(ret)
    /\ ret.arg = 1
    /\ ret.reward = 0
    /\ LevelOf(lastObs) = 0
    /\ At(consumption_of(data, active), counter - 2)
         > At(production_of(data, active), counter - 2)

\* C8 as stated: the long-term level is never negative.
C8_NeverNegative ==
    active # "none" => hydrogen_storage >= 0

\* C8 as amended: the long-term level never falls below minus the maximum
\* power times the number of calls of act with a valid action since the
\* last reset (the steps that returned plus those that ran off the series).
C8_BoundedBelow ==
    active # "none"
      => hydrogen_storage
           >= -((counter - 1 + overruns)
                  * ((hydrogen_max_power * EnergyDen) \div PowerDen))

\* C8 witness: two discharging steps after a reset, the level at -2 * power.
C8_Witness ==
    /\ Stepped(ret)
    /\ counter = 3
    /\ hydrogen_storage = -2 * ((hydrogen_max_power * EnergyDen) \div PowerDen)
    /\ hydrogen_storage < 0

\* C9: with hydrogen_max_power = 0 the long-term level stays 0 after every
\* call, and every reward returned is minus the penalty of that step: never
\* positive, and 0 when the buffer covers the net need or there is a surplus.
C9_NoHydrogen ==
    [][/\ hydrogen_storage' = 0
       /\ (Stepped(ret') /\ ret'.arg \in {0, 1, 2})
            => /\ ret'.reward = -StatedPenalty(ret'.arg)
               /\ ret'.reward <= 0
               /\ StatedBufferEnergy >= StatedNetNeed(ret'.arg) => ret'.reward = 0]_vars

\* C9 witness: with the long-term store switched off, a charging action
\* (action 2) returned a penalty and left the long-term level at 0.
C9_Witness ==
    /\ hydrogen_max_power = 0
    /\ Stepped(ret)
    /\ ret.arg = 2
    /\ ret.reward < 0
    /\ hydrogen_storage = 0

C16_ActionOneCharges ==
    [][(Stepped(ret') /\ ret'.arg = 1)
         => hydrogen_storage'
              = hydrogen_storage + (hydrogen_max_power * EnergyDen) \div PowerDen]_vars

\* The charge of the buffer by a surplus, in level units:
\* (-netNeed) / capacity * efficiency
StatedCharge(a) ==
    (((-StatedNetNeed(a)) * battery_eta_num) \div battery_eta_den)
        * (LevelDen \div (battery_size * FineDen))

\* The net need of the step that led to the current state (energy units)
LastNetNeed ==
    At(consumption_of(data, active), counter - 2)
    - At(production_of(data, active), counter - 2)
    + StatedEnergyFromLongTerm(ret.arg)

\* C18: in a step with netNeed < 0 the new level is
\* min(1, level + (-netNeed)/capacity*efficiency) and not below the old one;
\* with netNeed = 0 the level is unchanged; with netNeed > 0 it never rises.
C18_BufferDirection ==
    [][(Stepped(ret') /\ ret'.arg \in {0, 1, 2})
         => /\ StatedNetNeed(ret'.arg) < 0
                 => /\ LevelOf(lastObs')
                         = Min(LevelDen, LevelOf(lastObs) + StatedCharge(ret'.arg))
                    /\ LevelOf(lastObs') >= LevelOf(lastObs)
            /\ StatedNetNeed(ret'.arg) = 0 => LevelOf(lastObs') = LevelOf(lastObs)
            /\ StatedNetNeed(ret'.arg) > 0 => LevelOf(lastObs') <= LevelOf(lastObs)]_vars

\* C18 witness: a surplus has charged a partly empty buffer without filling it.
C18_Witness ==
    /\ Stepped(ret)
    /\ ret.arg \in {0, 1, 2}
    /\ LastNetNeed < 0
    /\ LevelOf(lastObs) > 0
    /\ LevelOf(lastObs) < LevelDen

\* C19: a penalty is charged only when the buffer is exhausted: if the reward
\* of a step is below longTermDelta * tariff the level after it is 0, and if
\* the level after it is positive the reward is exactly longTermDelta * tariff.
C19_PenaltyOnlyWhenEmpty ==
    [][(Stepped(ret') /\ ret'.arg \in {0, 1, 2})
         => /\ ret'.reward < StatedTariffReward(ret'.arg) => LevelOf(lastObs') = 0
            /\ LevelOf(lastObs') > 0 => ret'.reward = StatedTariffReward(ret'.arg)]_vars

\* C19 witness: a holding step (action 1) that was charged a penalty and left
\* the buffer empty.
C19_Witness ==
    /\ Stepped(ret)
    /\ ret.arg = 1
    /\ ret.reward < 0
    /\ LevelOf(lastObs) = 0

\* The state of the environment itself
envState ==
    <<dist_equinox, pred, hydrogen_max_power, data, active, counter,
      hydrogen_storage, lastObs>>

\* C11: observe() is a pure read: observe(), inputDimensions() and nActions()
\* leave buffer level, long-term level, cursor, active series and stored
\* observation unchanged and do not fail; a second observe() with no step or
\* reset in between returns the same value; nActions() returns 3.
C11_PureAccessors ==
    [][/\ ret'.op \in {"observe", "inputDimensions", "nActions"}
            => (envState' = envState /\ ret'.status = "ok")
       /\ (ret.op = "observe" /\ ret'.op = "observe") => ret'.obs = ret.obs
       /\ ret'.op = "observe" => ret'.obs = lastObs
       /\ ret'.op = "nActions" => ret'.reward = 3]_vars

\* C11 witness: observe() answered in the middle of an episode, with the
\* consumption slot filled by a step.
C11_Witness ==
    /\ ret.op = "observe"
    /\ counter = 3
    /\ ret.obs = lastObs
    /\ ret.obs[2][1][1] > 0

\* C12: the list observe() returns shares nothing with the environment: a
\* caller writing into any of its fields, the nested pair included, leaves
\* the stored observation (the buffer level with it) and the rest of the
\* environment unchanged, so later rewards and observe() results are not
\* affected.
C12_ObserveReturnsCopy ==
    [][ret'.op = "mutate" => envState' = envState]_vars

\* C12 witness: the caller has overwritten the consumption entry of the nested
\* pair of a returned observation; the stored observation still holds the
\* value the step put there.
C12_Witness ==
    /\ ret.op = "mutate"
    /\ counter = 3
    /\ ret.obs[2][1][1] = 1
    /\ lastObs[2][1][1] > 1

StatedNextLevel(a) ==
    IF StatedNetNeed(a) < 0
    THEN Min(LevelDen, LevelOf(lastObs) + StatedCharge(a))
    ELSE IF StatedNetNeed(a) = 0 THEN LevelOf(lastObs)
    ELSE IF StatedBufferEnergy >= StatedNetNeed(a)
    THEN LevelOf(lastObs) - StatedNetNeed(a) * (LevelDen \div (battery_size * FineDen))
    ELSE 0

\* s[c] + ... + s[c + w - 1] (0-based indices), all of them inside s
RECURSIVE StatedWindowSum(_, _, _)
StatedWindowSum(s, c, w) ==
    IF w = 0 THEN 0 ELSE StatedWindowSum(s, c, w - 1) + s[c + w]

\* C17: after a step that returns, taken with cursor c, the stored
\* observation, which is what observe() returns, holds the updated buffer
\* level, the normalised consumption and production at index c, with the
\* seasonal flag |c/24 - 182.5| / 182.5 (numerator over 8760), and with the
\* forecast flag the means of the normalised production over [c, c+24) and
\* [c, c+48) (numerators over 24 and 48 times the norm denominator) whenever
\* the window lies inside the series.
C17_ObservationAfterStep ==
    [][/\ (Stepped(ret') /\ ret'.arg \in {0, 1, 2})
            => /\ LevelOf(lastObs') = StatedNextLevel(ret'.arg)
               /\ lastObs'[2] = << <<consumption_norm_of(data, active)[counter + 1],
                                     production_norm_of(data, active)[counter + 1]>> >>
               /\ dist_equinox = 1
                    => lastObs'[3] = << <<Abs(2 * counter - 8760)>> >>
               /\ (pred = 1 /\ counter + 24 <= Len(production_norm_of(data, active)))
                    => lastObs'[Len(lastObs')][1][1]
                         = StatedWindowSum(production_norm_of(data, active), counter, 24)
               /\ (pred = 1 /\ counter + 48 <= Len(production_norm_of(data, active)))
                    => lastObs'[Len(lastObs')][1][2]
                         = StatedWindowSum(production_norm_of(data, active), counter, 48)
               /\ Len(lastObs') = 2 + dist_equinox + pred
       /\ (ret'.op = "observe" /\ ret'.status = "ok") => ret'.obs = lastObs]_vars

\* C17 witness: with both flags on, observe() has answered after the third
\* step on the long series (cursor 3 before the step, both windows whole):
\* the seasonal field is |6 - 8760| and the 48-hour forecast reflects the
\* production ahead.
C17_Witness ==
    /\ ret.op = "observe"
    /\ dist_equinox = 1
    /\ pred = 1
    /\ active = "train"
    /\ counter = 4
    /\ ret.obs[3] = << <<8754>> >>
    /\ ret.obs[2] = << <<LongProfile.cons[4], LongProfile.prod[4]>> >>
    /\ ret.obs[4][1][2] > ret.obs[4][1][1]
    /\ ret.obs[4][1][1] > 0

\* C13: two independent runs with the same configuration, data, mode and
\* actions give the same rewards and observe() results, whatever random
\* source each environment was constructed with: every call repeated on a
\* second, freshly constructed environment has the outcome it had on the
\* first, freshly constructed one.
C13_RunsAgree ==
    (run.phase = "replay" /\ run.pos > 0 /\ ~run.used)
        => ret = run.log[run.pos]

\* C13 witness: a whole record made on a fresh environment has been repeated
\* on an environment constructed with another seed; it holds a step that
\* cost a penalty and ends with an observe() showing the drained buffer.
C13_Witness ==
    /\ run.phase = "replay"
    /\ ~run.used
    /\ run.pos = MaxLog
    /\ rng # run.seed
    /\ \E k \in 2..(MaxLog - 1) : run.log[k].op = "act" /\ run.log[k].reward < 0
    /\ ret.op = "observe"
    /\ ret.status = "ok"
    /\ LevelOf(ret.obs) < LevelDen

\* C20: reset erases all history: after any earlier resets and steps, the
\* calls from a reset on have the outcomes (rewards, observe() results) the
\* same calls have on a freshly constructed environment with the same data.
C20_ResetErasesHistory ==
    (run.phase = "replay" /\ run.pos > 0 /\ run.used)
        => ret = run.log[run.pos]

\* C20 witness: a record that began on a used environment has been repeated
\* on a fresh one up to a step that returned a penalty.
C20_Witness ==
    /\ run.phase = "replay"
    /\ run.used
    /\ run.pos >= 3
    /\ ret.op = "act"
    /\ ret.status = "ok"
    /\ ret.reward < 0

=============================================================================
